---- MODULE Spec2Model ----
(***************************************************************************)
(* A model of mold's ARM32 backend (src/arch-arm32.cc): the addend codec   *)
(* (get_addend / write_addend), the relocation applier for allocated       *)
(* sections (InputSection::apply_reloc_alloc), EhFrameSection::            *)
(* apply_eh_reloc, the relocation scanner (InputSection::                  *)
(* scan_relocations) and the .ARM.exidx builder (Arm32ExidxSection::       *)
(* get_contents).                                                          *)
(*                                                                         *)
(* Representation of machine words.  TLC's integers are 32-bit signed, so  *)
(* a 32-bit little-endian word (ul32) is represented by its two's          *)
(* complement signed view (il32), an integer in [-2^31, 2^31 - 1].  The    *)
(* two Thumb half-words of a word w are thm0(w) (the low 16 bits, at the   *)
(* lower address) and thm1(w) (the high 16 bits).  64-bit quantities of    *)
(* the code (S, A, P and the displacements computed from them) are plain   *)
(* integers: every value the model computes stays far inside 32 bits, so   *)
(* a u64 that has wrapped to a "negative" value is its signed view too.    *)
(***************************************************************************)
EXTENDS Integers, Sequences, FiniteSets, TLC

VARIABLES
  \* ---- addend codec (get_addend / write_addend) ----
  c_rel,      \* rel.r_type of the relocation handed to write_addend / get_addend
  c_loc,      \* the 32-bit word at loc
  c_val,      \* the addend val handed to write_addend
  c_pc,       \* "init" | "written" | "aborted" | "read"
  c_res,      \* what get_addend returned
  \* ---- Arm32ExidxSection ----
  x_addr,     \* this->shdr.sh_addr
  x_text_end, \* get_text_end(ctx)
  x_in,       \* what output_section.write_to(ctx, buf) writes: the input table
  x_norm,     \* ent[] after the first parallel_for (table-relative form)
  x_sorted,   \* ent[] after std::sort
  x_uniq,     \* ent[0 .. num_entries) after std::unique and the resize
  x_out,      \* the returned buffer (self-relative form again)
  x_size,     \* this->shdr.sh_size
  x_pc,       \* "init" | "sized" | "deduped" | "copied" | "assert"
  \* ---- InputSection::apply_reloc_alloc, EhFrameSection::apply_eh_reloc ----
  symbols,    \* file.symbols: the state of every symbol, fixed while applying
  a_i,        \* the number of relocations gone through
  a_pc,       \* "loop" | "done" | "exited" (Fatal ended the process) | "crashed"
  has_error,  \* ctx.has_error: an Error(ctx) was reported
  unknown_at, \* 0, or the 1-based index of the first relocation of unknown kind
  last,       \* the last relocation gone through and what was done with it
  gotdesc_path, \* per symbol, the path the last TLS_GOTDESC site took
  call_path,    \* per symbol, the path the last TLS_CALL/THM_TLS_CALL site took
  \* ---- InputSection::scan_relocations ----
  scan_syms,  \* file.symbols as the scanner sees them: is_ifunc(), is_imported
  s_flags,    \* per symbol, sym.flags: the set of NEEDS_ bits set
  s_i,        \* the number of relocations gone through
  s_pc,       \* "loop" | "done"
  s_refd,     \* the symbols some relocation gone through refers to
  s_seen,     \* the symbols some relocation that was not skipped refers to
  needs_tlsld \* ctx.needs_tlsld

codec_vars == <<c_rel, c_loc, c_val, c_pc, c_res>>
exidx_vars == <<x_addr, x_text_end, x_in, x_norm, x_sorted, x_uniq, x_out, x_size, x_pc>>
apply_vars == <<symbols, a_i, a_pc, has_error, unknown_at, last, gotdesc_path, call_path>>
scan_vars == <<scan_syms, s_flags, s_i, s_pc, s_refd, s_seen, needs_tlsld>>
vars == <<codec_vars, exidx_vars, apply_vars, scan_vars>>

(***************************************************************************)
(* Bit helpers of mold's common headers.                                   *)
(***************************************************************************)

\* bit(val, pos): bit pos of val.
bit(val, pos) == (val \div 2^pos) % 2

\* bits(val, hi, lo): bits hi..lo of val, hi <= 30.
bits(val, hi, lo) == (val \div 2^lo) % 2^(hi - lo + 1)

\* val & 0x7fff'ffff for a 32-bit word in its signed view.
low31(w) == IF w >= 0 THEN w ELSE (w + 2^30) + 2^30

\* sign_extend(val, n): the low n bits of val as a signed n-bit number.
sign_extend(val, n) ==
  LET x == IF n = 31 THEN low31(val) ELSE val % 2^n
  IN  IF x >= 2^(n - 1) THEN (x - 2^(n - 1)) - 2^(n - 1) ELSE x

\* is_int(val, n): val fits a signed n-bit integer.
is_int(val, n) == -(2^(n - 1)) <= val /\ val < 2^(n - 1)

\* align_to(val, align): val rounded up to a multiple of align.
align_to(val, align) == val + ((align - (val % align)) % align)

\* The two half-words of a word, and the word made of two half-words.
thm0(w) == w % 65536
thm1(w) == (w \div 65536) % 65536
Word(h0, h1) == h0 + 65536 * (IF h1 >= 32768 THEN h1 - 65536 ELSE h1)

\* *(ul32 *)loc = val: the low 32 bits of val.  Every val of the model is
\* within 32 bits, so the signed view of the stored word is val itself; the
\* half-word round trip states that.
store32(val) == Word(thm0(val), thm1(val))

\* x & mask for 16-bit half-words, bit by bit.
RECURSIVE and16(_, _)
and16(x, mask) ==
  IF x = 0 \/ mask = 0 THEN 0
  ELSE (x % 2) * (mask % 2) + 2 * and16(x \div 2, mask \div 2)

(***************************************************************************)
(* Relocation kinds, by name.                                              *)
(***************************************************************************)
Abs32Kinds ==
  {"R_ARM_ABS32", "R_ARM_REL32", "R_ARM_BASE_PREL", "R_ARM_GOTOFF32",
   "R_ARM_GOT_PREL", "R_ARM_GOT_BREL", "R_ARM_TLS_GD32", "R_ARM_TLS_LDM32",
   "R_ARM_TLS_LDO32", "R_ARM_TLS_IE32", "R_ARM_TLS_LE32", "R_ARM_TLS_GOTDESC",
   "R_ARM_TARGET1", "R_ARM_TARGET2"}
ArmMovKinds ==
  {"R_ARM_MOVW_PREL_NC", "R_ARM_MOVW_ABS_NC", "R_ARM_MOVT_PREL", "R_ARM_MOVT_ABS"}
ThmMovKinds ==
  {"R_ARM_THM_MOVW_PREL_NC", "R_ARM_THM_MOVW_ABS_NC", "R_ARM_THM_MOVT_PREL",
   "R_ARM_THM_MOVT_ABS"}

(***************************************************************************)
(* get_addend.                                                             *)
(***************************************************************************)
get_addend(loc, r_type) ==
  LET arm == loc
      t0 == thm0(loc)
      t1 == thm1(loc)
  IN  CASE r_type \in Abs32Kinds -> arm
        [] r_type = "R_ARM_THM_JUMP8" -> sign_extend(t0, 8) * 2
        [] r_type = "R_ARM_THM_JUMP11" -> sign_extend(t0, 11) * 2
        [] r_type = "R_ARM_THM_JUMP19" ->
             LET S == bit(t0, 10)
                 J2 == bit(t1, 11)
                 J1 == bit(t1, 13)
                 imm6 == bits(t0, 5, 0)
                 imm11 == bits(t1, 10, 0)
                 val == S * 2^20 + J2 * 2^19 + J1 * 2^18 + imm6 * 2^12 + imm11 * 2
             IN  sign_extend(val, 21)
        [] r_type \in {"R_ARM_THM_CALL", "R_ARM_THM_JUMP24", "R_ARM_THM_TLS_CALL"} ->
             LET S == bit(t0, 10)
                 J1 == bit(t1, 13)
                 J2 == bit(t1, 11)
                 I1 == IF J1 # S THEN 0 ELSE 1
                 I2 == IF J2 # S THEN 0 ELSE 1
                 imm10 == bits(t0, 9, 0)
                 imm11 == bits(t1, 10, 0)
                 val == S * 2^24 + I1 * 2^23 + I2 * 2^22 + imm10 * 2^12 + imm11 * 2
             IN  sign_extend(val, 25)
        [] r_type \in {"R_ARM_CALL", "R_ARM_JUMP24", "R_ARM_PLT32", "R_ARM_TLS_CALL"} ->
             sign_extend(arm, 24) * 4
        [] r_type \in ArmMovKinds ->
             LET imm4 == bits(arm, 19, 16)
                 imm12 == bits(arm, 11, 0)
                 val == imm4 * 2^12 + imm12
             IN  sign_extend(val, 16)
        [] r_type = "R_ARM_PREL31" -> sign_extend(arm, 31)
        [] r_type \in ThmMovKinds ->
             LET imm4 == bits(t0, 3, 0)
                 i == bit(t0, 10)
                 imm3 == bits(t1, 14, 12)
                 imm8 == bits(t1, 7, 0)
                 val == imm4 * 2^12 + i * 2^11 + imm3 * 2^8 + imm8
             IN  sign_extend(val, 16)
        [] OTHER -> 0

(***************************************************************************)
(* The write_* helpers and write_addend.                                   *)
(***************************************************************************)

\* *(ul32 *)loc = (*(ul32 *)loc & 0xfff0'f000) | (imm4 << 16) | imm12
write_arm_mov(loc, val) ==
  LET imm12 == bits(val, 11, 0)
      imm4 == bits(val, 15, 12)
  IN  Word(and16(thm0(loc), \hf000) + imm12, and16(thm1(loc), \hfff0) + imm4)

write_thm_b21(loc, val) ==
  LET S == bit(val, 20)
      J2 == bit(val, 19)
      J1 == bit(val, 18)
      imm6 == bits(val, 17, 12)
      imm11 == bits(val, 11, 1)
  IN  Word(and16(thm0(loc), \hfbc0) + S * 2^10 + imm6,
           and16(thm1(loc), \hd000) + J1 * 2^13 + J2 * 2^11 + imm11)

write_thm_b25(loc, val) ==
  LET S == bit(val, 24)
      I1 == bit(val, 23)
      I2 == bit(val, 22)
      J1 == IF (1 - I1) # S THEN 1 ELSE 0
      J2 == IF (1 - I2) # S THEN 1 ELSE 0
      imm10 == bits(val, 21, 12)
      imm11 == bits(val, 11, 1)
  IN  Word(and16(thm0(loc), \hf800) + S * 2^10 + imm10,
           and16(thm1(loc), \hd000) + J1 * 2^13 + J2 * 2^11 + imm11)

write_thm_mov(loc, val) ==
  LET imm4 == bits(val, 15, 12)
      i == bit(val, 11)
      imm3 == bits(val, 10, 8)
      imm8 == bits(val, 7, 0)
  IN  Word(and16(thm0(loc), \hfbf0) + i * 2^10 + imm4,
           and16(thm1(loc), \h8f00) + imm3 * 2^12 + imm8)

\* (*(ul16 *)loc & mask) | field: the first half-word rewritten, the second kept.
write_thm16(loc, mask, field) == Word(and16(thm0(loc), mask) + field, thm1(loc))

\* (*(ul32 *)loc & 0xff00'0000) | bits(val, 25, 2)
write_arm_b26(loc, val) ==
  Word(bits(val, 17, 2), and16(thm1(loc), \hff00) + bits(val, 25, 18))

\* (*(ul32 *)loc & 0x8000'0000) | (val & 0x7fff'ffff)
write_prel31(loc, val) ==
  LET v == low31(val)
  IN  IF loc < 0 THEN (v - 2^30) - 2^30 ELSE v

\* The kinds write_addend's switch has a case for.
WriteAddendKinds ==
  {"R_ARM_NONE"} \cup Abs32Kinds
    \cup {"R_ARM_THM_JUMP8", "R_ARM_THM_JUMP11", "R_ARM_THM_CALL", "R_ARM_THM_JUMP24",
          "R_ARM_THM_TLS_CALL", "R_ARM_CALL", "R_ARM_JUMP24", "R_ARM_PLT32",
          "R_ARM_PREL31"}
    \cup ArmMovKinds \cup ThmMovKinds

\* write_addend for a kind its switch has a case for: the word at loc afterwards.
write_addend(loc, val, r_type) ==
  CASE r_type = "R_ARM_NONE" -> loc
    [] r_type \in Abs32Kinds -> store32(val)
    [] r_type = "R_ARM_THM_JUMP8" -> write_thm16(loc, \hff00, bits(val, 8, 1))
    [] r_type = "R_ARM_THM_JUMP11" -> write_thm16(loc, \hf800, bits(val, 11, 1))
    [] r_type \in {"R_ARM_THM_CALL", "R_ARM_THM_JUMP24", "R_ARM_THM_TLS_CALL"} ->
         write_thm_b25(loc, val)
    [] r_type \in {"R_ARM_CALL", "R_ARM_JUMP24", "R_ARM_PLT32"} -> write_arm_b26(loc, val)
    [] r_type \in ArmMovKinds -> write_arm_mov(loc, val)
    [] r_type = "R_ARM_PREL31" -> write_prel31(loc, val)
    [] r_type \in ThmMovKinds -> write_thm_mov(loc, val)

(***************************************************************************)
(* The codec on its own: write_addend(loc, val, rel), then                 *)
(* get_addend(loc, rel).                                                   *)
(***************************************************************************)

\* How many values next to each boundary and next to zero are tried.
CodecSpread == 2

\* The signed-immediate families: width in bits of the encoded field and the
\* granularity (1, 2 or 4 bytes) the field counts in.
SignedImmKinds ==
  {"R_ARM_THM_JUMP8", "R_ARM_THM_JUMP11", "R_ARM_THM_JUMP19", "R_ARM_THM_CALL",
   "R_ARM_THM_JUMP24", "R_ARM_THM_TLS_CALL", "R_ARM_CALL", "R_ARM_JUMP24",
   "R_ARM_PLT32", "R_ARM_TLS_CALL", "R_ARM_PREL31"} \cup ArmMovKinds \cup ThmMovKinds

FieldBits(r_type) ==
  CASE r_type = "R_ARM_THM_JUMP8" -> 8
    [] r_type = "R_ARM_THM_JUMP11" -> 11
    [] r_type = "R_ARM_THM_JUMP19" -> 20
    [] r_type \in {"R_ARM_THM_CALL", "R_ARM_THM_JUMP24", "R_ARM_THM_TLS_CALL"} -> 24
    [] r_type \in {"R_ARM_CALL", "R_ARM_JUMP24", "R_ARM_PLT32", "R_ARM_TLS_CALL"} -> 24
    [] r_type \in ArmMovKinds \cup ThmMovKinds -> 16
    [] OTHER -> 31

Granule(r_type) ==
  CASE r_type \in {"R_ARM_THM_JUMP8", "R_ARM_THM_JUMP11", "R_ARM_THM_JUMP19",
                   "R_ARM_THM_CALL", "R_ARM_THM_JUMP24", "R_ARM_THM_TLS_CALL"} -> 2
    [] r_type \in {"R_ARM_CALL", "R_ARM_JUMP24", "R_ARM_PLT32", "R_ARM_TLS_CALL"} -> 4
    [] OTHER -> 1

\* The smallest and the largest value a family represents.
MinVal(r_type) == -(2^(FieldBits(r_type) - 1)) * Granule(r_type)
MaxVal(r_type) == (2^(FieldBits(r_type) - 1) - 1) * Granule(r_type)

\* Values representable by a family: both boundaries and their neighbours, the
\* values around zero, every power of two and its negation, and for the 8-bit
\* family every value.
CodecVals(r_type) ==
  LET g == Granule(r_type)
      near == {MinVal(r_type) + k * g : k \in 0..CodecSpread}
                \cup {MaxVal(r_type) - k * g : k \in 0..CodecSpread}
                \cup {k * g : k \in -CodecSpread..CodecSpread}
      pows == {2^j * g : j \in 0..(FieldBits(r_type) - 2)}
                \cup {-(2^j) * g : j \in 0..(FieldBits(r_type) - 2)}
      all == IF FieldBits(r_type) = 8 THEN {k * g : k \in -128..127} ELSE {}
  IN  near \cup pows \cup all

\* Prior contents of the instruction: all zeros, all ones, a Thumb BL, an ARM
\* BL, and an alternating pattern.
LocSamples ==
  {0, -1, Word(\hf000, \hf800), Word(\hfffe, \hebff), Word(\h5555, \haaaa)}

CodecKinds == SignedImmKinds \cup Abs32Kinds \cup {"R_ARM_NONE"}

InitCodec ==
  /\ c_rel \in CodecKinds
  /\ c_loc \in LocSamples
  /\ c_val \in CodecVals(c_rel)
  /\ c_pc = "init"
  /\ c_res = 0
  \* the other parts of the model stay idle
  /\ x_addr = 0
  /\ x_text_end = 0
  /\ x_in = <<>>
  /\ x_norm = <<>>
  /\ x_sorted = <<>>
  /\ x_uniq = <<>>
  /\ x_out = <<>>
  /\ x_size = 0
  /\ x_pc = "idle"
  /\ symbols = <<>>
  /\ a_i = 0
  /\ a_pc = "idle"
  /\ has_error = FALSE
  /\ unknown_at = 0
  /\ last = <<>>
  /\ gotdesc_path = <<>>
  /\ call_path = <<>>
  /\ scan_syms = <<>>
  /\ s_flags = <<>>
  /\ s_i = 0
  /\ s_pc = "idle"
  /\ s_refd = {}
  /\ s_seen = {}
  /\ needs_tlsld = FALSE

\* write_addend on a kind its switch handles.
WriteAddend ==
  /\ c_pc = "init"
  /\ c_rel \in WriteAddendKinds
  /\ c_loc' = write_addend(c_loc, c_val, c_rel)
  /\ c_pc' = "written"
  /\ UNCHANGED <<c_rel, c_val, c_res>>
  /\ UNCHANGED <<exidx_vars, apply_vars, scan_vars>>

\* write_addend on a kind its switch has no case for: default: unreachable().
\* That is an assertion failure in a build with assertions, and undefined
\* behaviour without: nothing is stored, or control falls into the body of
\* some other case.
WriteAddendUnreachable ==
  /\ c_pc = "init"
  /\ c_rel \notin WriteAddendKinds
  /\ \/ /\ c_pc' = "aborted"
        /\ UNCHANGED c_loc
     \/ /\ c_pc' = "written"
        /\ c_loc' \in {c_loc} \cup {write_addend(c_loc, c_val, k) : k \in WriteAddendKinds}
  /\ UNCHANGED <<c_rel, c_val, c_res>>
  /\ UNCHANGED <<exidx_vars, apply_vars, scan_vars>>

\* get_addend on what write_addend left at loc.
GetAddend ==
  /\ c_pc = "written"
  /\ c_res' = get_addend(c_loc, c_rel)
  /\ c_pc' = "read"
  /\ UNCHANGED <<c_rel, c_loc, c_val>>
  /\ UNCHANGED <<exidx_vars, apply_vars, scan_vars>>

NextCodec ==
  \/ WriteAddend
  \/ WriteAddendUnreachable
  \/ GetAddend

(***************************************************************************)
(* Arm32ExidxSection: the .ARM.exidx table.  An entry is a record          *)
(* [addr, val] of two 32-bit words; a table is a sequence of entries, the  *)
(* entry at index k (from 1) lying at byte offset sizeof(Entry) * (k - 1). *)
(***************************************************************************)

CANTUNWIND == 1

\* sizeof(Entry)
EntrySize == 8

\* The byte offset of the entry at index k (from 1).
EntryOffset(k) == EntrySize * (k - 1)

\* a < b for two ul32 in their signed view.
ult32(a, b) == IF (a >= 0) = (b >= 0) THEN a < b ELSE a >= 0

\* 0x7fff'ffff & (val + offset) for 0 <= val < 2^31 and 0 <= offset.
add31(val, offset) ==
  LET room == ((2^30 - 1) + 2^30) - val
  IN  IF offset > room THEN (offset - room) - 1 ELSE val + offset

is_relative(val) == val # CANTUNWIND /\ val >= 0

\* The table with the sentinel in its extra slot.
WithSentinel(in, sh_addr, text_end) ==
  LET num_entries == Len(in) + 1
      sentinel_addr == sh_addr + EntrySize * (num_entries - 1)
  IN  Append(in, [addr |-> store32(text_end - sentinel_addr), val |-> CANTUNWIND])

\* The first parallel_for: addresses relative to the beginning of the section.
Normalize(ent) ==
  [k \in 1..Len(ent) |->
     [addr |-> store32(sign_extend(ent[k].addr, 31) + EntryOffset(k)),
      val |-> IF is_relative(ent[k].val)
              THEN add31(ent[k].val, EntryOffset(k))
              ELSE ent[k].val]]

\* The comparison handed to std::sort: a.addr < b.addr, on ul32.
SortLess(a, b) == ult32(a.addr, b.addr)

\* std::sort is not stable: every arrangement of ent that is in order under
\* SortLess is a result it may return.
SortResults(ent) ==
  LET n == Len(ent)
      perms == {p \in [1..n -> 1..n] : \A i, j \in 1..n : i # j => p[i] # p[j]}
  IN  {[k \in 1..n |-> ent[p[k]]] :
         p \in {q \in perms : \A k \in 1..(n - 1) : ~SortLess(ent[q[k + 1]], ent[q[k]])}}

\* A std::unique that compared start addresses instead of values.
UniqueEqAddr(a, b) == a.addr = b.addr

\* The predicate handed to std::unique: a.val == b.val.
UniqueEq(a, b) == a.val = b.val

\* std::unique: of every run of neighbours equal under UniqueEq, the first stays.
RECURSIVE Unique(_)
Unique(ent) ==
  IF Len(ent) <= 1 THEN ent
  ELSE LET rest == Unique(Tail(ent))
       IN  IF UniqueEq(ent[1], rest[1]) THEN <<ent[1]>> \o Tail(rest)
           ELSE <<ent[1]>> \o rest

\* The second parallel_for: addresses relative to the entries themselves.
Rerelativize(ent) ==
  [k \in 1..Len(ent) |->
     [addr |-> low31(ent[k].addr - EntryOffset(k)),
      val |-> IF is_relative(ent[k].val)
              THEN low31(ent[k].val - EntryOffset(k))
              ELSE ent[k].val]]

\* get_contents: every result it may return, with the table at each stage.
get_contents(in, sh_addr, text_end) ==
  LET norm == Normalize(WithSentinel(in, sh_addr, text_end))
  IN  {[norm |-> norm, sorted |-> s, uniq |-> Unique(s), out |-> Rerelativize(Unique(s))] :
         s \in SortResults(norm)}

\* ---- the inputs ----

\* The largest number of records in the input table.
MaxEntries == 2

\* this->shdr.sh_addr
TableAddrs == {4096}

\* get_text_end(ctx): the end of executable code.
TextEnds == {12288}

\* Start addresses of the functions the records cover: below the table, two
\* 8 bytes apart, the end of the text, and past the end of the text.
StartAddrs == {2048, 8192, 8200, 12288, 14336}

\* Value fields: CANTUNWIND, two inlined encodings, two pointers 8 bytes apart
\* in self-relative form, and a pointer that the first parallel_for carries to
\* the top of the 31-bit range.
ValFields ==
  {CANTUNWIND, Word(\hb0b0, \h80b0), Word(\hb0b0, \h80a8), 256, 264,
   Word(\hfff9, \h7fff)}

\* The self-relative 31-bit form of address a seen from address from.
prel31(a, from) == low31(a - from)

\* The input tables of n records over the values above.
InputTables(sh_addr) ==
  UNION {{[k \in 1..n |-> [addr |-> prel31(f[k][1], sh_addr + EntryOffset(k)),
                           val |-> f[k][2]]] :
            f \in [1..n -> StartAddrs \X ValFields]} : n \in 0..MaxEntries}

InitExidx ==
  /\ x_addr \in TableAddrs
  /\ x_text_end \in TextEnds
  /\ x_in \in InputTables(x_addr)
  /\ x_norm = <<>>
  /\ x_sorted = <<>>
  /\ x_uniq = <<>>
  /\ x_out = <<>>
  /\ x_size = 0
  /\ x_pc = "init"
  \* the other parts of the model stay idle
  /\ c_rel = "R_ARM_NONE"
  /\ c_loc = 0
  /\ c_val = 0
  /\ c_pc = "idle"
  /\ c_res = 0
  /\ symbols = <<>>
  /\ a_i = 0
  /\ a_pc = "idle"
  /\ has_error = FALSE
  /\ unknown_at = 0
  /\ last = <<>>
  /\ gotdesc_path = <<>>
  /\ call_path = <<>>
  /\ scan_syms = <<>>
  /\ s_flags = <<>>
  /\ s_i = 0
  /\ s_pc = "idle"
  /\ s_refd = {}
  /\ s_seen = {}
  /\ needs_tlsld = FALSE

\* Arm32ExidxSection::compute_section_size
ComputeSectionSize ==
  /\ x_pc = "init"
  /\ x_size' = EntrySize * Len(x_in) + 8
  /\ x_pc' = "sized"
  /\ UNCHANGED <<x_addr, x_text_end, x_in, x_norm, x_sorted, x_uniq, x_out>>
  /\ UNCHANGED <<codec_vars, apply_vars, scan_vars>>

\* Arm32ExidxSection::remove_duplicate_entries: sh_size = get_contents(ctx).size()
RemoveDuplicateEntries ==
  /\ x_pc = "sized"
  /\ \E r \in get_contents(x_in, x_addr, x_text_end) :
       /\ x_norm' = r.norm
       /\ x_sorted' = r.sorted
       /\ x_uniq' = r.uniq
       /\ x_out' = r.out
       /\ x_size' = EntrySize * Len(r.out)
  /\ x_pc' = "deduped"
  /\ UNCHANGED <<x_addr, x_text_end, x_in>>
  /\ UNCHANGED <<codec_vars, apply_vars, scan_vars>>

\* Arm32ExidxSection::copy_buf: the same function on the same input returns
\* the same table again (std::sort is deterministic), so the size asserted is
\* the size set by remove_duplicate_entries.
CopyBuf ==
  /\ x_pc = "deduped"
  /\ \E r \in get_contents(x_in, x_addr, x_text_end) :
       /\ r.sorted = x_sorted
       /\ x_size = EntrySize * Len(r.out)
       /\ x_out' = r.out
  /\ x_pc' = "copied"
  /\ UNCHANGED <<x_addr, x_text_end, x_in, x_norm, x_sorted, x_uniq, x_size>>
  /\ UNCHANGED <<codec_vars, apply_vars, scan_vars>>

NextExidx ==
  \/ ComputeSectionSize
  \/ RemoveDuplicateEntries
  \/ CopyBuf

\* The absolute start address the entry at index k of a returned table denotes.
AbsAddr(out, sh_addr, k) == sh_addr + EntryOffset(k) + sign_extend(out[k].addr, 31)

\* get_contents has returned.
ExidxBuilt == x_pc \in {"deduped", "copied"}

(***************************************************************************)
(* InputSection::apply_reloc_alloc.                                        *)
(*                                                                         *)
(* A symbol is a record: S (sym.get_addr, bit 0 the Thumb flag), weak      *)
(* (is_remaining_undef_weak), thunk (sym.get_thunk_addr(ctx, P)), got_idx, *)
(* has_tlsdesc, has_gottp, tlsdesc_addr, gottp_addr, tlsgd_addr.           *)
(* What one loop iteration does is a record: loc (the word at loc          *)
(* afterwards), outcome ("applied", "error" for Error(ctx), "fatal" for    *)
(* Fatal(ctx)), thunk (a thunk address was asked for), disp and width (the *)
(* displacement handed to the branch encoder and the signed width of its   *)
(* field, when a thunk was asked for), rng (check_range reported a         *)
(* violation) and path (the TLSDESC relaxation taken).                     *)
(***************************************************************************)

\* ctx: the addresses the relocations are resolved against.
Ctx ==
  [got |-> 196608, tp_addr |-> 262144, dtp_addr |-> 262144, tlsld_addr |-> 196672]

\* output_section->thunks: the start addresses of its thunks, ascending.
OsecThunks == <<32768, 67584>>

Applied(loc) ==
  [loc |-> loc, outcome |-> "applied", thunk |-> FALSE, disp |-> 0, width |-> 0,
   rng |-> FALSE, path |-> "none"]

ViaThunk(loc, disp, width) ==
  [loc |-> loc, outcome |-> "applied", thunk |-> TRUE, disp |-> disp, width |-> width,
   rng |-> FALSE, path |-> "none"]

Relaxed(loc, path) ==
  [loc |-> loc, outcome |-> "applied", thunk |-> FALSE, disp |-> 0, width |-> 0,
   rng |-> FALSE, path |-> path]

\* check(val, lo, hi) before a write: check_range reports val outside [lo, hi).
Checked(loc, val, lo, hi) ==
  [loc |-> loc, outcome |-> "applied", thunk |-> FALSE, disp |-> 0, width |-> 0,
   rng |-> (val < lo \/ hi <= val), path |-> "none"]

Failed(loc, outcome) ==
  [loc |-> loc, outcome |-> outcome, thunk |-> FALSE, disp |-> 0, width |-> 0,
   rng |-> FALSE, path |-> "none"]

\* The no-op encodings: 0xe320'f000, and 0x8000'f3af (NOP.W: f3af 8000).
NopArm == Word(\hf000, \he320)
NopThumb == Word(\hf3af, \h8000)

\* x | T
or_mode(x, T) == IF T = 1 /\ x % 2 = 0 THEN x + 1 ELSE x

\* *(ul16 *)(loc + 2) |= 0x1000 and *(ul16 *)(loc + 2) &= ~0x1000
set_bl(loc) == Word(thm0(loc), and16(thm1(loc), \hefff) + 4096)
set_blx(loc) == Word(thm0(loc), and16(thm1(loc), \hefff))

\* *(ul32 *)loc = (top << 24) | field, field of 24 bits (25 with BLX's H bit).
arm_insn(top, field) == Word(field % 65536, top * 256 + (field \div 65536))

get_thumb_thunk_addr(sym) == sym.thunk
get_arm_thunk_addr(sym) == sym.thunk + 4

\* get_reachable_thunk: std::upper_bound, the first thunk with addr < get_addr();
\* 0 stands for osec.thunks.end().
get_reachable_thunk(thunks, addr) ==
  LET after == {k \in 1..Len(thunks) : addr < thunks[k]}
  IN  IF after = {} THEN 0 ELSE CHOOSE k \in after : \A j \in after : k <= j

\* A THM_CALL that routed every ARM-mode target through the thunk instead of
\* rewriting BL to BLX.
apply_thm_call_no_blx(sym, loc, A, P) ==
  LET S == sym.S
      T == S % 2
      val1 == S + A - P
      tval == get_thumb_thunk_addr(sym) + A - P
  IN  IF sym.weak THEN Applied(NopThumb)
      ELSE IF T = 1 /\ is_int(val1, 25) THEN Applied(write_thm_b25(set_bl(loc), val1))
      ELSE ViaThunk(write_thm_b25(set_bl(loc), tval), tval, 25)

\* case R_ARM_THM_CALL
apply_thm_call(sym, loc, A, P) ==
  LET S == sym.S
      T == S % 2
      val1 == S + A - P
      val2 == align_to(S + A - P, 4)
      tval == get_thumb_thunk_addr(sym) + A - P
  IN  IF sym.weak THEN Applied(NopThumb)
      ELSE IF T = 1 /\ is_int(val1, 25) THEN Applied(write_thm_b25(set_bl(loc), val1))
      ELSE IF T = 0 /\ is_int(val2, 25) THEN Applied(write_thm_b25(set_blx(loc), val2))
      ELSE ViaThunk(write_thm_b25(set_bl(loc), tval), tval, 25)

\* An ARM_CALL that did not look at the opcode it rewrites.
apply_arm_call_unchecked(sym, loc, A, P) ==
  LET S == sym.S
      T == S % 2
      val == S + A - P
      tval == get_arm_thunk_addr(sym) + A - P
  IN  IF sym.weak THEN Applied(NopArm)
      ELSE IF is_int(val, 26)
           THEN IF T = 1
                THEN Applied(arm_insn(\hfa, bit(val, 1) * 2^24 + bits(val, 25, 2)))
                ELSE Applied(arm_insn(\heb, bits(val, 25, 2)))
           ELSE ViaThunk(arm_insn(\heb, bits(tval, 25, 2)), tval, 26)

\* case R_ARM_CALL
apply_arm_call(sym, loc, A, P) ==
  LET S == sym.S
      T == S % 2
      is_bl == thm1(loc) \div 256 = \heb
      is_blx == thm1(loc) \div 512 = \h7d
      val == S + A - P
      tval == get_arm_thunk_addr(sym) + A - P
  IN  IF sym.weak THEN Applied(NopArm)
      ELSE IF ~is_bl /\ ~is_blx THEN Failed(loc, "fatal")
      ELSE IF is_int(val, 26)
           THEN IF T = 1
                THEN Applied(arm_insn(\hfa, bit(val, 1) * 2^24 + bits(val, 25, 2)))
                ELSE Applied(arm_insn(\heb, bits(val, 25, 2)))
           ELSE ViaThunk(arm_insn(\heb, bits(tval, 25, 2)), tval, 26)

\* case R_ARM_JUMP24
apply_jump24(sym, loc, A, P) ==
  LET S == sym.S
      T == S % 2
      val == S + A - P
      tval == get_arm_thunk_addr(sym) + A - P
  IN  IF sym.weak THEN Applied(NopArm)
      ELSE IF T = 1 \/ ~is_int(val, 26) THEN ViaThunk(write_arm_b26(loc, tval), tval, 26)
      ELSE Applied(write_arm_b26(loc, val))

\* A PLT32 without the test for a weak symbol left undefined.
apply_plt32_no_weak(sym, loc, A, P) ==
  LET S == sym.S
      T == S % 2
      tval == get_arm_thunk_addr(sym) + A - P
  IN  IF T = 1 THEN ViaThunk(write_arm_b26(loc, tval), tval, 26)
      ELSE Applied(write_arm_b26(loc, S + A - P))

\* case R_ARM_PLT32
apply_plt32(sym, loc, A, P) ==
  LET S == sym.S
      T == S % 2
      tval == get_arm_thunk_addr(sym) + A - P
  IN  IF sym.weak THEN Applied(NopArm)
      ELSE IF T = 1 THEN ViaThunk(write_arm_b26(loc, tval), tval, 26)
      ELSE Applied(write_arm_b26(loc, S + A - P))

\* case R_ARM_THM_JUMP24
apply_thm_jump24(sym, loc, A, P) ==
  LET S == sym.S
      T == S % 2
      val == S + A - P
      tval == get_thumb_thunk_addr(sym) + A - P
  IN  IF sym.weak THEN Applied(NopThumb)
      ELSE IF T = 0 \/ ~is_int(val, 25) THEN ViaThunk(write_thm_b25(loc, tval), tval, 25)
      ELSE Applied(write_thm_b25(loc, val))

\* case R_ARM_TLS_GOTDESC
apply_tls_gotdesc(sym, loc, A, P) ==
  IF sym.has_tlsdesc
  THEN Relaxed(store32(sym.tlsdesc_addr - P + A - (IF A % 2 = 1 THEN 6 ELSE 4)), "desc")
  ELSE IF sym.has_gottp
  THEN Relaxed(store32(sym.gottp_addr - P + A - (IF A % 2 = 1 THEN 5 ELSE 8)), "gottp")
  ELSE Relaxed(store32(sym.S - Ctx.tp_addr), "resolved")

\* A TLS_CALL that tested has_gottp before has_tlsdesc.
apply_tls_call_gottp_first(sym, loc, P, tramp) ==
  IF sym.has_gottp
  THEN Relaxed(Word(0, \he79f), "gottp")
  ELSE IF sym.has_tlsdesc
  THEN Relaxed(arm_insn(\heb, bits(tramp - P - 8, 25, 2)), "desc")
  ELSE Relaxed(NopArm, "resolved")

\* case R_ARM_TLS_CALL; tramp is get_tlsdesc_trampoline_addr()
apply_tls_call(sym, loc, P, tramp) ==
  IF sym.has_tlsdesc
  THEN Relaxed(arm_insn(\heb, bits(tramp - P - 8, 25, 2)), "desc")
  ELSE IF sym.has_gottp
  THEN Relaxed(Word(0, \he79f), "gottp")
  ELSE Relaxed(NopArm, "resolved")

\* case R_ARM_THM_TLS_CALL; tramp is get_tlsdesc_trampoline_addr()
apply_thm_tls_call(sym, loc, P, tramp) ==
  IF sym.has_tlsdesc
  THEN Relaxed(set_blx(write_thm_b25(loc, align_to(tramp - P - 4, 4))), "desc")
  ELSE IF sym.has_gottp
  THEN Relaxed(Word(\h4478, \h6800), "gottp")
  ELSE Relaxed(NopThumb, "resolved")

\* The kinds the switch of apply_reloc_alloc has a case for.
ApplyAllocKinds ==
  Abs32Kinds \cup ArmMovKinds \cup ThmMovKinds
    \cup {"R_ARM_THM_CALL", "R_ARM_CALL", "R_ARM_JUMP24", "R_ARM_PLT32",
          "R_ARM_THM_JUMP8", "R_ARM_THM_JUMP11", "R_ARM_THM_JUMP19", "R_ARM_THM_JUMP24",
          "R_ARM_PREL31", "R_ARM_TLS_CALL", "R_ARM_THM_TLS_CALL"}

\* The switch of apply_reloc_alloc on one relocation.
apply_reloc(r_type, sym, loc, P, tramp) ==
  LET S == sym.S
      A == get_addend(loc, r_type)
      T == S % 2
      G == sym.got_idx * 4
      GOT == Ctx.got
  IN  CASE r_type \in {"R_ARM_ABS32", "R_ARM_TARGET1"} -> Applied(loc)
        [] r_type = "R_ARM_REL32" -> Applied(store32(S + A - P))
        [] r_type = "R_ARM_THM_CALL" -> apply_thm_call(sym, loc, A, P)
        [] r_type = "R_ARM_BASE_PREL" -> Applied(store32(GOT + A - P))
        [] r_type = "R_ARM_GOTOFF32" -> Applied(store32(or_mode(S + A, T) - GOT))
        [] r_type \in {"R_ARM_GOT_PREL", "R_ARM_TARGET2"} -> Applied(store32(GOT + G + A - P))
        [] r_type = "R_ARM_GOT_BREL" -> Applied(store32(G + A))
        [] r_type = "R_ARM_CALL" -> apply_arm_call(sym, loc, A, P)
        [] r_type = "R_ARM_JUMP24" -> apply_jump24(sym, loc, A, P)
        [] r_type = "R_ARM_PLT32" -> apply_plt32(sym, loc, A, P)
        [] r_type = "R_ARM_THM_JUMP8" ->
             Checked(write_thm16(loc, \hff00, bits(S + A - P, 8, 1)), S + A - P, -(2^8), 2^8)
        [] r_type = "R_ARM_THM_JUMP11" ->
             Checked(write_thm16(loc, \hf800, bits(S + A - P, 11, 1)), S + A - P, -(2^11), 2^11)
        [] r_type = "R_ARM_THM_JUMP19" ->
             Checked(write_thm_b21(loc, S + A - P), S + A - P, -(2^20), 2^20)
        [] r_type = "R_ARM_THM_JUMP24" -> apply_thm_jump24(sym, loc, A, P)
        [] r_type = "R_ARM_MOVW_PREL_NC" -> Applied(write_arm_mov(loc, or_mode(S + A, T) - P))
        [] r_type = "R_ARM_MOVW_ABS_NC" -> Applied(write_arm_mov(loc, or_mode(S + A, T)))
        [] r_type = "R_ARM_THM_MOVW_PREL_NC" ->
             Applied(write_thm_mov(loc, or_mode(S + A, T) - P))
        [] r_type = "R_ARM_PREL31" ->
             Checked(write_prel31(loc, S + A - P), S + A - P, -(2^30), 2^30)
        [] r_type = "R_ARM_THM_MOVW_ABS_NC" -> Applied(write_thm_mov(loc, or_mode(S + A, T)))
        [] r_type = "R_ARM_MOVT_PREL" -> Applied(write_arm_mov(loc, (S + A - P) \div 2^16))
        [] r_type = "R_ARM_THM_MOVT_PREL" -> Applied(write_thm_mov(loc, (S + A - P) \div 2^16))
        [] r_type = "R_ARM_MOVT_ABS" -> Applied(write_arm_mov(loc, (S + A) \div 2^16))
        [] r_type = "R_ARM_THM_MOVT_ABS" -> Applied(write_thm_mov(loc, (S + A) \div 2^16))
        [] r_type = "R_ARM_TLS_GD32" -> Applied(store32(sym.tlsgd_addr + A - P))
        [] r_type = "R_ARM_TLS_LDM32" -> Applied(store32(Ctx.tlsld_addr + A - P))
        [] r_type = "R_ARM_TLS_LDO32" -> Applied(store32(S + A - Ctx.dtp_addr))
        [] r_type = "R_ARM_TLS_IE32" -> Applied(store32(sym.gottp_addr + A - P))
        [] r_type = "R_ARM_TLS_LE32" -> Applied(store32(S + A - Ctx.tp_addr))
        [] r_type = "R_ARM_TLS_GOTDESC" -> apply_tls_gotdesc(sym, loc, A, P)
        [] r_type = "R_ARM_TLS_CALL" -> apply_tls_call(sym, loc, P, tramp)
        [] r_type = "R_ARM_THM_TLS_CALL" -> apply_thm_tls_call(sym, loc, P, tramp)
        [] OTHER -> Failed(loc, "error")

(***************************************************************************)
(* EhFrameSection::apply_eh_reloc.                                         *)
(***************************************************************************)

\* this->shdr.sh_addr of .eh_frame
EhFrameAddr == 131072

\* The switch of apply_eh_reloc on one relocation.
apply_eh_reloc(r_type, loc, offset, val) ==
  CASE r_type = "R_ARM_NONE" -> Applied(loc)
    [] r_type = "R_ARM_ABS32" -> Applied(store32(val))
    [] r_type = "R_ARM_REL32" -> Applied(store32(val - EhFrameAddr - offset))
    [] OTHER -> Failed(loc, "fatal")

(***************************************************************************)
(* The inputs of the relocation applier.                                   *)
(***************************************************************************)

\* The largest number of relocations applied.
MaxRels == 2

Sym(S, weak, thunk, has_tlsdesc, has_gottp) ==
  [S |-> S, weak |-> weak, thunk |-> thunk, got_idx |-> 3,
   has_tlsdesc |-> has_tlsdesc, has_gottp |-> has_gottp,
   tlsdesc_addr |-> 196640, gottp_addr |-> 196656, tlsgd_addr |-> 196624]

\* r_sym
SymIds == {1, 2}

\* file.symbols, two symbols each: ARM and Thumb functions near the section;
\* the same beyond the reach of a branch, with their thunk within reach; the
\* same with their thunk out of reach too; weak symbols left undefined; TLS
\* symbols with and without a TLSDESC and a GOT TP slot.
SymTables ==
  { <<Sym(65792, FALSE, 67584, FALSE, FALSE), Sym(65793, FALSE, 67584, FALSE, FALSE)>>,
    <<Sym(50397184, FALSE, 67584, FALSE, FALSE), Sym(50397185, FALSE, 67584, FALSE, FALSE)>>,
    <<Sym(50397185, FALSE, 83951616, FALSE, FALSE), Sym(50397184, FALSE, 83951616, FALSE, FALSE)>>,
    <<Sym(0, TRUE, 67584, FALSE, FALSE), Sym(65793, TRUE, 83951616, FALSE, FALSE)>>,
    <<Sym(262160, FALSE, 67584, TRUE, TRUE), Sym(262160, FALSE, 67584, FALSE, TRUE)>>,
    <<Sym(262164, FALSE, 67584, TRUE, FALSE), Sym(262168, FALSE, 67584, FALSE, FALSE)>> }

\* Kinds the switch of apply_reloc_alloc has no case for.
UnknownKinds == {"R_ARM_ABS16"}

\* Kinds the loop skips.
SkippedKinds == {"R_ARM_NONE", "R_ARM_V4BX"}

ArmBranchKinds == {"R_ARM_CALL", "R_ARM_JUMP24", "R_ARM_PLT32"}
ThmBranchKinds == {"R_ARM_THM_CALL", "R_ARM_THM_JUMP24"}
BranchKinds == ArmBranchKinds \cup ThmBranchKinds
TlsCallKinds == {"R_ARM_TLS_CALL", "R_ARM_THM_TLS_CALL"}
CheckedKinds == {"R_ARM_THM_JUMP8", "R_ARM_THM_JUMP11", "R_ARM_THM_JUMP19", "R_ARM_PREL31"}

\* The word at loc before the relocation: ARM BL with addend 0 and with
\* addend -8, ARM BLX, ARM B; Thumb BL with addend -4 and with addend 0.
ArmLocs == {Word(0, \heb00), Word(\hfffe, \hebff), Word(0, \hfa00), Word(0, \hea00)}
ThmLocs == {Word(\hf7ff, \hfffe), Word(\hf000, \hf800)}

\* The relocations of the section, as (r_type, P, word at loc) with
\* P = get_addr() + rel.r_offset: branches at two places before the thunks of
\* the output section; TLS_GOTDESC with an even and an odd addend; TLS calls
\* before the thunks, at the start address of the last thunk and past it;
\* every other kind once.
RelocInputs ==
  (ArmBranchKinds \X {65536, 65540} \X ArmLocs)
    \cup (ThmBranchKinds \X {65536, 65538} \X ThmLocs)
    \cup ({"R_ARM_TLS_GOTDESC"} \X {65536} \X {0, 5, 8})
    \cup ({"R_ARM_TLS_CALL"} \X {65536, 67584, 69632} \X {Word(\hfffe, \hebff)})
    \cup ({"R_ARM_THM_TLS_CALL"} \X {65538, 67584, 69632} \X {Word(\hf7ff, \hfffe)})
    \cup ((UnknownKinds \cup SkippedKinds) \X {65536} \X {5})
    \cup (CheckedKinds \X {65536} \X {0})
    \cup (((Abs32Kinds \ {"R_ARM_TLS_GOTDESC"}) \cup ArmMovKinds \cup ThmMovKinds)
            \X {65536} \X {5})

\* The relocations of .eh_frame, as (r_type, offset, word at loc).
EhRelocInputs ==
  ({"R_ARM_NONE", "R_ARM_ABS32", "R_ARM_REL32"} \cup UnknownKinds) \X {8} \X {5}

\* What **it reads when it is osec.thunks.end().
GarbageAddrs == {0, 1073741824}

\* get_tlsdesc_trampoline_addr() is called.
NeedsTrampoline(r_type, sym) == r_type \in TlsCallKinds /\ sym.has_tlsdesc

\* get_reachable_thunk(*output_section, P) dereferences osec.thunks.end().
TrampolineUndefined(r_type, sym, P) ==
  NeedsTrampoline(r_type, sym) /\ get_reachable_thunk(OsecThunks, P) = 0

\* The values get_tlsdesc_trampoline_addr() may return.
TrampolineAddrs(r_type, sym, P) ==
  IF ~NeedsTrampoline(r_type, sym) THEN {0}
  ELSE IF get_reachable_thunk(OsecThunks, P) = 0 THEN GarbageAddrs
  ELSE {OsecThunks[get_reachable_thunk(OsecThunks, P)]}

\* One relocation and what was done with it; fn is the function that did it.
Done(fn, r_type, r_sym, P, before, res) ==
  [fn |-> fn, r_type |-> r_type, r_sym |-> r_sym, P |-> P, before |-> before, res |-> res]

NoReloc == Done("none", "R_ARM_NONE", 1, 0, 0, Failed(0, "none"))

InitApply ==
  /\ symbols \in SymTables
  /\ a_i = 0
  /\ a_pc = "loop"
  /\ has_error = FALSE
  /\ unknown_at = 0
  /\ last = NoReloc
  /\ gotdesc_path = [i \in SymIds |-> "none"]
  /\ call_path = [i \in SymIds |-> "none"]
  \* the other parts of the model stay idle
  /\ c_rel = "R_ARM_NONE"
  /\ c_loc = 0
  /\ c_val = 0
  /\ c_pc = "idle"
  /\ c_res = 0
  /\ x_addr = 0
  /\ x_text_end = 0
  /\ x_in = <<>>
  /\ x_norm = <<>>
  /\ x_sorted = <<>>
  /\ x_uniq = <<>>
  /\ x_out = <<>>
  /\ x_size = 0
  /\ x_pc = "idle"
  /\ scan_syms = <<>>
  /\ s_flags = <<>>
  /\ s_i = 0
  /\ s_pc = "idle"
  /\ s_refd = {}
  /\ s_seen = {}
  /\ needs_tlsld = FALSE

\* One iteration of the loop of apply_reloc_alloc, on the relocation
\* (r_type, r_sym) at place P whose word is loc.
ApplyReloc ==
  /\ a_pc = "loop"
  /\ a_i < MaxRels
  /\ \E rel \in RelocInputs, r_sym \in SymIds :
       \E tramp \in TrampolineAddrs(rel[1], symbols[r_sym], rel[2]) :
         \E res \in {IF rel[1] \in SkippedKinds THEN Failed(rel[3], "skipped")
                     ELSE apply_reloc(rel[1], symbols[r_sym], rel[3], rel[2], tramp)} :
           /\ last' = Done("apply_reloc_alloc", rel[1], r_sym, rel[2], rel[3], res)
           /\ a_pc' = IF res.outcome = "fatal" THEN "exited" ELSE "loop"
           /\ has_error' = (has_error \/ res.outcome = "error" \/ res.rng)
           /\ unknown_at' = IF unknown_at = 0 /\ res.outcome = "error"
                            THEN a_i + 1 ELSE unknown_at
           /\ gotdesc_path' = IF rel[1] = "R_ARM_TLS_GOTDESC"
                              THEN [gotdesc_path EXCEPT ![r_sym] = res.path]
                              ELSE gotdesc_path
           /\ call_path' = IF rel[1] \in TlsCallKinds
                           THEN [call_path EXCEPT ![r_sym] = res.path]
                           ELSE call_path
  /\ a_i' = a_i + 1
  /\ UNCHANGED symbols
  /\ UNCHANGED <<codec_vars, exidx_vars, scan_vars>>

\* The same iteration when get_reachable_thunk dereferences the end of the
\* thunk list and the read faults.
ApplyRelocCrash ==
  /\ a_pc = "loop"
  /\ a_i < MaxRels
  /\ \E rel \in RelocInputs, r_sym \in SymIds :
       /\ TrampolineUndefined(rel[1], symbols[r_sym], rel[2])
       /\ last' = Done("apply_reloc_alloc", rel[1], r_sym, rel[2], rel[3],
                       Failed(rel[3], "crash"))
  /\ a_pc' = "crashed"
  /\ a_i' = a_i + 1
  /\ UNCHANGED <<symbols, has_error, unknown_at, gotdesc_path, call_path>>
  /\ UNCHANGED <<codec_vars, exidx_vars, scan_vars>>

\* The loop has gone through every relocation of the section.
ApplyRelocEnd ==
  /\ a_pc = "loop"
  /\ a_pc' = "done"
  /\ UNCHANGED <<symbols, a_i, has_error, unknown_at, last, gotdesc_path, call_path>>
  /\ UNCHANGED <<codec_vars, exidx_vars, scan_vars>>

\* EhFrameSection::apply_eh_reloc on one relocation of .eh_frame, val being
\* the address of its symbol.
ApplyEhReloc ==
  /\ a_pc = "loop"
  /\ a_i < MaxRels
  /\ \E rel \in EhRelocInputs, r_sym \in SymIds :
       \E res \in {apply_eh_reloc(rel[1], rel[3], rel[2], symbols[r_sym].S)} :
         /\ last' = Done("apply_eh_reloc", rel[1], r_sym, EhFrameAddr + rel[2], rel[3], res)
         /\ a_pc' = IF res.outcome = "fatal" THEN "exited" ELSE "loop"
  /\ a_i' = a_i + 1
  /\ UNCHANGED <<symbols, has_error, unknown_at, gotdesc_path, call_path>>
  /\ UNCHANGED <<codec_vars, exidx_vars, scan_vars>>

NextApply ==
  \/ ApplyReloc
  \/ ApplyRelocCrash
  \/ ApplyRelocEnd
  \/ ApplyEhReloc

(***************************************************************************)
(* InputSection::scan_relocations.                                         *)
(*                                                                         *)
(* sym.flags is a set of NEEDS_ bits that the scanner only ever ORs into.  *)
(* scan_absrel, scan_pcrel, scan_tlsdesc, check_tlsle and                  *)
(* record_undef_error are defined outside this file: each is modelled by   *)
(* the outcomes its call may have here, the bits it may OR into sym.flags  *)
(* and whether it reports an error.                                        *)
(***************************************************************************)

\* The largest number of relocations scanned.
MaxScanRels == 2

ScanSym(is_ifunc, is_imported) == [is_ifunc |-> is_ifunc, is_imported |-> is_imported]

\* file.symbols, two symbols each.
ScanSymTables ==
  { <<ScanSym(TRUE, FALSE), ScanSym(FALSE, TRUE)>>,
    <<ScanSym(FALSE, FALSE), ScanSym(TRUE, FALSE)>>,
    <<ScanSym(TRUE, TRUE), ScanSym(FALSE, FALSE)>> }

\* What one iteration does: the flags of the symbol afterwards, whether an
\* error was reported, whether ctx.needs_tlsld was set.
Scanned(flags, err, tlsld) == [flags |-> flags, err |-> err, tlsld |-> tlsld]

\* scan_absrel(ctx, sym, rel) and scan_pcrel(ctx, sym, rel): nothing, a copy
\* relocation, a PLT entry, a canonical PLT entry, or an error.
scan_absrel(flags) ==
  {Scanned(flags \cup add, FALSE, FALSE) :
     add \in {{}, {"NEEDS_COPYREL"}, {"NEEDS_PLT"}, {"NEEDS_CPLT"}}}
    \cup {Scanned(flags, TRUE, FALSE)}

scan_pcrel(flags) == scan_absrel(flags)

\* scan_tlsdesc(ctx, sym): a TLSDESC, a GOT TP slot, or nothing.
scan_tlsdesc(flags) ==
  {Scanned(flags \cup add, FALSE, FALSE) : add \in {{}, {"NEEDS_TLSDESC"}, {"NEEDS_GOTTP"}}}

\* check_tlsle(ctx, sym, rel): nothing, or an error.
check_tlsle(flags) == {Scanned(flags, FALSE, FALSE), Scanned(flags, TRUE, FALSE)}

\* The kinds whose case of scan_relocations is a bare break.
ScanNothingKinds ==
  {"R_ARM_ABS32", "R_ARM_TARGET1", "R_ARM_MOVT_ABS", "R_ARM_THM_MOVT_ABS", "R_ARM_REL32",
   "R_ARM_BASE_PREL", "R_ARM_GOTOFF32", "R_ARM_THM_JUMP8", "R_ARM_THM_JUMP11",
   "R_ARM_THM_JUMP19", "R_ARM_MOVW_PREL_NC", "R_ARM_THM_MOVW_PREL_NC",
   "R_ARM_TLS_LDO32", "R_ARM_V4BX", "R_ARM_TLS_GOTDESC"}

\* A scan that asked an indirect function for a PLT entry only.
scan_reloc_plt_only(r_type, sym, flags0) ==
  {Scanned(IF sym.is_ifunc THEN flags0 \cup {"NEEDS_PLT"} ELSE flags0,
           r_type \notin ScanNothingKinds, FALSE)}

\* The body of the loop of scan_relocations past its continue: every outcome
\* it may have on a symbol whose flags are flags0.
scan_reloc(r_type, sym, flags0) ==
  LET flags == IF sym.is_ifunc THEN flags0 \cup {"NEEDS_GOT", "NEEDS_PLT"} ELSE flags0
  IN  CASE r_type \in {"R_ARM_MOVW_ABS_NC", "R_ARM_THM_MOVW_ABS_NC"} -> scan_absrel(flags)
        [] r_type \in {"R_ARM_THM_CALL", "R_ARM_CALL", "R_ARM_JUMP24", "R_ARM_PLT32",
                       "R_ARM_THM_JUMP24"} ->
             {Scanned(IF sym.is_imported THEN flags \cup {"NEEDS_PLT"} ELSE flags,
                      FALSE, FALSE)}
        [] r_type \in {"R_ARM_GOT_PREL", "R_ARM_GOT_BREL", "R_ARM_TARGET2"} ->
             {Scanned(flags \cup {"NEEDS_GOT"}, FALSE, FALSE)}
        [] r_type \in {"R_ARM_MOVT_PREL", "R_ARM_THM_MOVT_PREL", "R_ARM_PREL31"} ->
             scan_pcrel(flags)
        [] r_type = "R_ARM_TLS_GD32" -> {Scanned(flags \cup {"NEEDS_TLSGD"}, FALSE, FALSE)}
        [] r_type = "R_ARM_TLS_LDM32" -> {Scanned(flags, FALSE, TRUE)}
        [] r_type = "R_ARM_TLS_IE32" -> {Scanned(flags \cup {"NEEDS_GOTTP"}, FALSE, FALSE)}
        [] r_type \in {"R_ARM_TLS_CALL", "R_ARM_THM_TLS_CALL"} -> scan_tlsdesc(flags)
        [] r_type = "R_ARM_TLS_LE32" -> check_tlsle(flags)
        [] r_type \in ScanNothingKinds -> {Scanned(flags, FALSE, FALSE)}
        [] OTHER -> {Scanned(flags, TRUE, FALSE)}

\* rel.r_type of the relocations scanned: R_ARM_NONE, a kind of every case of
\* the switch, and a kind it has no case for.
ScanKinds ==
  {"R_ARM_NONE", "R_ARM_MOVW_ABS_NC", "R_ARM_CALL", "R_ARM_PLT32", "R_ARM_GOT_PREL",
   "R_ARM_PREL31", "R_ARM_TLS_GD32", "R_ARM_TLS_LDM32", "R_ARM_TLS_IE32",
   "R_ARM_TLS_CALL", "R_ARM_TLS_LE32", "R_ARM_ABS32", "R_ARM_V4BX"} \cup UnknownKinds

InitScan ==
  /\ scan_syms \in ScanSymTables
  /\ s_flags = [i \in SymIds |-> {}]
  /\ s_i = 0
  /\ s_pc = "loop"
  /\ s_refd = {}
  /\ s_seen = {}
  /\ needs_tlsld = FALSE
  /\ has_error = FALSE
  \* the other parts of the model stay idle
  /\ c_rel = "R_ARM_NONE"
  /\ c_loc = 0
  /\ c_val = 0
  /\ c_pc = "idle"
  /\ c_res = 0
  /\ x_addr = 0
  /\ x_text_end = 0
  /\ x_in = <<>>
  /\ x_norm = <<>>
  /\ x_sorted = <<>>
  /\ x_uniq = <<>>
  /\ x_out = <<>>
  /\ x_size = 0
  /\ x_pc = "idle"
  /\ symbols = <<>>
  /\ a_i = 0
  /\ a_pc = "idle"
  /\ unknown_at = 0
  /\ last = <<>>
  /\ gotdesc_path = <<>>
  /\ call_path = <<>>

\* One iteration of the loop of scan_relocations on a relocation of kind
\* r_type that refers to r_sym and is skipped: it is R_NONE, or
\* record_undef_error(ctx, rel) found its symbol undefined.
ScanRelocSkipped ==
  /\ s_pc = "loop"
  /\ s_i < MaxScanRels
  /\ \E r_type \in ScanKinds, r_sym \in SymIds, undefined \in BOOLEAN :
       /\ r_type = "R_ARM_NONE" \/ undefined
       /\ s_refd' = s_refd \cup {r_sym}
  /\ s_i' = s_i + 1
  /\ UNCHANGED <<scan_syms, s_flags, s_pc, s_seen, needs_tlsld>>
  /\ UNCHANGED <<codec_vars, exidx_vars, apply_vars>>

\* One iteration on a relocation that is not skipped.
ScanReloc ==
  /\ s_pc = "loop"
  /\ s_i < MaxScanRels
  /\ \E r_type \in ScanKinds \ {"R_ARM_NONE"}, r_sym \in SymIds :
       \E o \in scan_reloc(r_type, scan_syms[r_sym], s_flags[r_sym]) :
         /\ s_flags' = [s_flags EXCEPT ![r_sym] = o.flags]
         /\ has_error' = (has_error \/ o.err)
         /\ needs_tlsld' = (needs_tlsld \/ o.tlsld)
         /\ s_refd' = s_refd \cup {r_sym}
         /\ s_seen' = s_seen \cup {r_sym}
  /\ s_i' = s_i + 1
  /\ UNCHANGED <<scan_syms, s_pc>>
  /\ UNCHANGED <<symbols, a_i, a_pc, unknown_at, last, gotdesc_path, call_path>>
  /\ UNCHANGED <<codec_vars, exidx_vars>>

\* The loop has gone through every relocation of the section.
ScanEnd ==
  /\ s_pc = "loop"
  /\ s_pc' = "done"
  /\ UNCHANGED <<scan_syms, s_flags, s_i, s_refd, s_seen, needs_tlsld>>
  /\ UNCHANGED <<codec_vars, exidx_vars, apply_vars>>

NextScan ==
  \/ ScanRelocSkipped
  \/ ScanReloc
  \/ ScanEnd

(***************************************************************************)
(* The claims about the .ARM.exidx table (under SpecExidx).                *)
(***************************************************************************)

\* C1: the table get_contents returns is strictly ascending by absolute start
\* address: the address of every entry is less than that of the next entry.
C1_StrictlyAscending ==
  ExidxBuilt =>
    \A k \in 1..(Len(x_out) - 1) :
      AbsAddr(x_out, x_addr, k) < AbsAddr(x_out, x_addr, k + 1)

\* C2, as claimed: in the table get_contents returns, after the final
\* re-relativization, no two adjacent entries have equal value fields.
C2_NoAdjacentEqualValues ==
  ExidxBuilt =>
    \A k \in 1..(Len(x_out) - 1) : x_out[k].val # x_out[k + 1].val

\* C2, as amended: right before the final re-relativization no two adjacent
\* entries have equal value fields, and in the returned table two adjacent
\* entries have equal value fields only if one of them was a pointer before
\* the re-relativization.
C2_NoAdjacentEqualBeforeRerelativize ==
  ExidxBuilt =>
    /\ Len(x_out) = Len(x_uniq)
    /\ \A k \in 1..(Len(x_uniq) - 1) :
         /\ x_uniq[k].val # x_uniq[k + 1].val
         /\ (~is_relative(x_uniq[k].val) /\ ~is_relative(x_uniq[k + 1].val))
              => x_out[k].val # x_out[k + 1].val

\* C2's case: std::unique has removed an entry, at least two entries are
\* left, and one of them holds a pointer that the re-relativization rewrote.
C2_Witness ==
  /\ ExidxBuilt
  /\ Len(x_uniq) < Len(x_sorted)
  /\ Len(x_out) >= 2
  /\ \E k \in 1..Len(x_out) :
       is_relative(x_uniq[k].val) /\ x_out[k].val # x_uniq[k].val

\* C3: the last entry of the table get_contents returns has value CANTUNWIND.
C3_EndsWithCantunwind ==
  ExidxBuilt => x_out[Len(x_out)].val = CANTUNWIND

(***************************************************************************)
(* The claim about the codec (under SpecCodec).                            *)
(***************************************************************************)

\* C4: for every signed-immediate family get_addend decodes, get_addend
\* returns the value write_addend was given, whatever the instruction held.
C4_WriteThenGetAddend ==
  c_rel \in SignedImmKinds =>
    /\ c_pc # "aborted"
    /\ c_pc = "read" => c_res = c_val

(***************************************************************************)
(* The claims about apply_reloc_alloc and apply_eh_reloc (under SpecApply).*)
(***************************************************************************)

\* The last relocation gone through was one of apply_reloc_alloc, of a kind
\* in kinds, and the iteration came to its end.
LastAlloc(kinds) ==
  /\ last.fn = "apply_reloc_alloc"
  /\ last.r_type \in kinds
  /\ last.res.outcome # "crash"

LastSym == symbols[last.r_sym]
LastA == get_addend(last.before, last.r_type)
LastT == LastSym.S % 2

\* S + A - P of the last relocation.
LastDisp == LastSym.S + LastA - last.P

\* The second half-word of the word written has bit 12 set: BL, not BLX.
LastIsThumbBL == bit(thm1(last.res.loc), 12) = 1

\* C5, as claimed: THM_CALL on a symbol that is not weak-undefined writes BL
\* with the displacement S+A-P when the target is Thumb and the displacement
\* fits 25 bits, and a call to the Thumb entry of the thunk when the target is
\* ARM or the displacement does not fit.
C5_ThmCallThunkOnModeMismatch ==
  (LastAlloc({"R_ARM_THM_CALL"}) /\ ~LastSym.weak) =>
    IF LastT = 1 /\ is_int(LastDisp, 25)
    THEN /\ ~last.res.thunk
         /\ LastIsThumbBL
         /\ get_addend(last.res.loc, "R_ARM_THM_CALL") = LastDisp - 1
    ELSE /\ last.res.thunk
         /\ LastIsThumbBL
         /\ last.res.disp = get_thumb_thunk_addr(LastSym) + LastA - last.P

\* C5, as amended: BL with S+A-P (less the mode bit) when the target is Thumb
\* and that fits 25 bits; BLX with S+A-P rounded up to a multiple of 4 when
\* the target is ARM and that fits 25 bits; otherwise BL with the low 25 bits
\* of the displacement to the Thumb entry of the thunk.
C5_ThmCallBlBlxOrThunk ==
  (LastAlloc({"R_ARM_THM_CALL"}) /\ ~LastSym.weak) =>
    IF LastT = 1 /\ is_int(LastDisp, 25)
    THEN /\ ~last.res.thunk
         /\ LastIsThumbBL
         /\ get_addend(last.res.loc, "R_ARM_THM_CALL") = LastDisp - 1
    ELSE IF LastT = 0 /\ is_int(align_to(LastDisp, 4), 25)
    THEN /\ ~last.res.thunk
         /\ ~LastIsThumbBL
         /\ get_addend(last.res.loc, "R_ARM_THM_CALL") = align_to(LastDisp, 4)
    ELSE /\ last.res.thunk
         /\ LastIsThumbBL
         /\ last.res.disp = get_thumb_thunk_addr(LastSym) + LastA - last.P
         /\ get_addend(last.res.loc, "R_ARM_THM_CALL") = sign_extend(last.res.disp, 25)

\* C5's case: a THM_CALL to an ARM-mode target within reach, left a BLX whose
\* displacement was rounded up.
C5_Witness ==
  /\ LastAlloc({"R_ARM_THM_CALL"})
  /\ ~LastSym.weak
  /\ LastT = 0
  /\ LastDisp % 4 = 2
  /\ ~last.res.thunk
  /\ ~LastIsThumbBL
  /\ get_addend(last.res.loc, "R_ARM_THM_CALL") = LastDisp + 2

\* C6: a call or jump whose symbol is weak and undefined becomes the no-op of
\* its width (0xe320f000, or the half-words f3af 8000), whatever the addend,
\* the instruction, S and P, no thunk is asked for and nothing is reported.
C6_WeakUndefBecomesNop ==
  (LastAlloc(BranchKinds) /\ LastSym.weak) =>
    /\ last.res.outcome = "applied"
    /\ ~last.res.thunk
    /\ ~last.res.rng
    /\ a_pc # "exited"
    /\ last.r_type \in ArmBranchKinds => last.res.loc = NopArm
    /\ last.r_type \in ThmBranchKinds =>
         (thm0(last.res.loc) = \hf3af /\ thm1(last.res.loc) = \h8000)

\* C6's case: an ARM_CALL on a weak undefined symbol whose address is not 0,
\* whose thunk is out of reach and whose instruction is no call: a no-op.
C6_Witness ==
  /\ LastAlloc({"R_ARM_CALL"})
  /\ LastSym.weak
  /\ LastSym.S # 0
  /\ last.before = Word(0, \hea00)
  /\ last.res.loc = NopArm

\* The instruction of the last relocation is neither BL nor BLX.
LastIsNoCall == thm1(last.before) \div 256 # \heb /\ thm1(last.before) \div 512 # \h7d

\* C7, as claimed: an ARM_CALL whose instruction is neither BL nor BLX is
\* fatal and nothing is written there, whatever the state of the symbol.
C7_BadOpcodeAlwaysFatal ==
  (LastAlloc({"R_ARM_CALL"}) /\ LastIsNoCall) =>
    /\ last.res.outcome = "fatal"
    /\ a_pc = "exited"
    /\ last.res.loc = last.before

\* C7, as amended: that holds when the symbol is not weak-undefined; on a
\* weak undefined symbol the instruction is not looked at and the no-op is
\* written.
C7_BadOpcodeFatalUnlessWeak ==
  (LastAlloc({"R_ARM_CALL"}) /\ LastIsNoCall) =>
    IF LastSym.weak
    THEN /\ last.res.outcome = "applied"
         /\ last.res.loc = NopArm
         /\ a_pc # "exited"
    ELSE /\ last.res.outcome = "fatal"
         /\ a_pc = "exited"
         /\ last.res.loc = last.before

\* C7's case: an ARM_CALL on a defined symbol whose instruction is B: fatal.
C7_Witness ==
  /\ LastAlloc({"R_ARM_CALL"})
  /\ LastIsNoCall
  /\ ~LastSym.weak
  /\ a_pc = "exited"

\* C8: a relocation of a kind apply_reloc_alloc or apply_eh_reloc does not
\* know is fatal: the process ends at that relocation, none is applied after.
C8_UnknownKindIsFatal ==
  /\ unknown_at # 0 => (a_pc = "exited" /\ a_i = unknown_at)
  /\ (last.fn = "apply_eh_reloc" /\ last.r_type \in UnknownKinds) => a_pc = "exited"

\* C9: when a branch has been sent through a thunk and the displacement to
\* the thunk does not fit the field of the instruction, a range violation is
\* reported, and the loop goes on.
C9_ThunkOutOfRangeReported ==
  (LastAlloc(BranchKinds) /\ last.res.thunk /\ ~is_int(last.res.disp, last.res.width)) =>
    /\ last.res.rng
    /\ has_error
    /\ a_pc # "exited"

\* The path the flags of a symbol call for.
TlsdescPath(sym) ==
  IF sym.has_tlsdesc THEN "desc" ELSE IF sym.has_gottp THEN "gottp" ELSE "resolved"

\* C10: the TLS_GOTDESC site and the TLS_CALL/THM_TLS_CALL site of a symbol
\* take the same path, the one its flags call for; on the resolved path the
\* TLS_GOTDESC site gets S - tp_addr whatever the addend and the call site
\* becomes the no-op of its width.
C10_TlsdescPathsAgree ==
  /\ \A s \in DOMAIN gotdesc_path :
       /\ gotdesc_path[s] \in {"none", TlsdescPath(symbols[s])}
       /\ call_path[s] \in {"none", TlsdescPath(symbols[s])}
       /\ (gotdesc_path[s] # "none" /\ call_path[s] # "none")
            => gotdesc_path[s] = call_path[s]
  /\ (LastAlloc({"R_ARM_TLS_GOTDESC"}) /\ ~LastSym.has_tlsdesc /\ ~LastSym.has_gottp) =>
       last.res.loc = LastSym.S - Ctx.tp_addr
  /\ (LastAlloc({"R_ARM_TLS_CALL"}) /\ ~LastSym.has_tlsdesc /\ ~LastSym.has_gottp) =>
       last.res.loc = NopArm
  /\ (LastAlloc({"R_ARM_THM_TLS_CALL"}) /\ ~LastSym.has_tlsdesc /\ ~LastSym.has_gottp) =>
       last.res.loc = NopThumb

\* C10's case: a symbol with a TLSDESC and a GOT TP slot whose TLS_GOTDESC
\* site, with an odd addend or an even one, and whose call site have both
\* been rewritten.
C10_Witness ==
  /\ LastAlloc({"R_ARM_TLS_CALL"})
  /\ LastSym.has_tlsdesc
  /\ LastSym.has_gottp
  /\ gotdesc_path[last.r_sym] = "desc"
  /\ call_path[last.r_sym] = "desc"

(***************************************************************************)
(* Further claims about apply_reloc_alloc (under SpecApply).               *)
(***************************************************************************)

\* C12: PLT32 on a symbol that is not weak-undefined decides as JUMP24 does:
\* a direct branch with displacement S+A-P only when the target is ARM and
\* the displacement fits 26 bits, and otherwise a branch to the ARM entry
\* (offset +4) of the symbol's thunk.
C12_Plt32DecidesAsJump24 ==
  (LastAlloc({"R_ARM_PLT32"}) /\ ~LastSym.weak) =>
    /\ last.res = apply_jump24(LastSym, last.before, LastA, last.P)
    /\ IF LastT = 0 /\ is_int(LastDisp, 26)
       THEN /\ ~last.res.thunk
            /\ get_addend(last.res.loc, "R_ARM_PLT32") = LastDisp
       ELSE /\ last.res.thunk
            /\ last.res.disp = get_arm_thunk_addr(LastSym) + LastA - last.P

\* The address the branch written at the last TLS call site goes to: P + 8
\* plus the field for ARM BL, Align(P + 4, 4) plus the field for Thumb BLX.
LastCallTarget ==
  IF last.r_type = "R_ARM_TLS_CALL"
  THEN last.P + 8 + get_addend(last.res.loc, "R_ARM_TLS_CALL")
  ELSE ((last.P + 4) - ((last.P + 4) % 4)) + get_addend(last.res.loc, "R_ARM_THM_TLS_CALL")

\* C13: the trampoline a TLS_CALL/THM_TLS_CALL at P is sent to is an element
\* of the sorted thunk list of the output section, the one with the smallest
\* start address that is >= P, also when P is the start address of a thunk
\* and when P is greater than the start address of every thunk.
C13_TrampolineIsThunkAtOrAfter ==
  (last.fn = "apply_reloc_alloc" /\ last.r_type \in TlsCallKinds /\ LastSym.has_tlsdesc) =>
    /\ last.res.outcome = "applied"
    /\ \E k \in 1..Len(OsecThunks) :
         /\ OsecThunks[k] >= last.P
         /\ \A j \in 1..Len(OsecThunks) :
              OsecThunks[j] >= last.P => OsecThunks[k] <= OsecThunks[j]
         /\ LastCallTarget = OsecThunks[k]

(***************************************************************************)
(* A further claim about the .ARM.exidx table (under SpecExidx).           *)
(***************************************************************************)

\* The table get_contents starts from: the input records and the sentinel.
ExidxInput == WithSentinel(x_in, x_addr, x_text_end)

\* The absolute address the pointer in the value field of the entry at index
\* k denotes: the address of the field plus its sign-extended 31 bits.
AbsVal(t, sh_addr, k) == sh_addr + EntryOffset(k) + 4 + sign_extend(t[k].val, 31)

\* C14: get_contents only removes entries: every entry returned has the
\* absolute start address of some input entry (or the sentinel), the same
\* value when that one is CANTUNWIND or an inlined encoding, and when it is a
\* pointer the returned value is a pointer too and denotes the same address.
C14_SurvivorsDenoteTheSame ==
  ExidxBuilt =>
    \A j \in 1..Len(x_out) :
      \E i \in 1..Len(ExidxInput) :
        /\ AbsAddr(x_out, x_addr, j) = AbsAddr(ExidxInput, x_addr, i)
        /\ IF is_relative(ExidxInput[i].val)
           THEN /\ is_relative(x_out[j].val)
                /\ AbsVal(x_out, x_addr, j) = AbsVal(ExidxInput, x_addr, i)
           ELSE x_out[j].val = ExidxInput[i].val

(***************************************************************************)
(* The claim about scan_relocations (under SpecScan).                      *)
(***************************************************************************)

NeedsGotAndPlt(s) == {"NEEDS_GOT", "NEEDS_PLT"} \subseteq s_flags[s]

\* C11, as claimed: after scan_relocations every indirect function some
\* relocation of the section refers to has NEEDS_GOT and NEEDS_PLT set,
\* whatever the kind of the relocation.
C11_IfuncReferencedNeedsGotPlt ==
  s_pc = "done" => \A s \in s_refd : scan_syms[s].is_ifunc => NeedsGotAndPlt(s)

\* C11, as amended: during and after scan_relocations every indirect function
\* referred to by a relocation that was not skipped (its kind is not R_NONE
\* and its symbol was not reported undefined) has NEEDS_GOT and NEEDS_PLT set,
\* whatever the kind, also an unknown one or one after a reported error.
C11_IfuncScannedNeedsGotPlt ==
  s_pc \in {"loop", "done"} =>
    \A s \in s_seen : scan_syms[s].is_ifunc => NeedsGotAndPlt(s)

\* C11's case: the scan is over, an error was reported at the first of two
\* relocations, and an indirect function was referred to after it.
C11_Witness ==
  /\ s_pc = "done"
  /\ s_i = 2
  /\ has_error
  /\ \E s \in s_seen : scan_syms[s].is_ifunc /\ s_flags[s] = {"NEEDS_GOT", "NEEDS_PLT"}
  /\ \E s \in s_seen : ~scan_syms[s].is_ifunc

(***************************************************************************)
(* The specifications.                                                     *)
(***************************************************************************)

\* write_addend followed by get_addend.
SpecCodec == InitCodec /\ [][NextCodec]_vars

\* The .ARM.exidx section from its sizing to its copy into the output.
SpecExidx == InitExidx /\ [][NextExidx]_vars

\* The relocations of one section and of .eh_frame being applied.
SpecApply == InitApply /\ [][NextApply]_vars

\* The relocations of one section being scanned.
SpecScan == InitScan /\ [][NextScan]_vars

Init == InitCodec \/ InitExidx \/ InitApply \/ InitScan

Next == NextCodec \/ NextExidx \/ NextApply \/ NextScan

Spec == Init /\ [][Next]_vars

====
